---- MODULE Spec2Model ----
(***************************************************************************)
(* Single-value Paxos as implemented in src/algorithms/paxos.py:           *)
(* ProposalNumber, Acceptor, Proposer and Learner.  Each handler of an     *)
(* acceptor is a pair of operators on the acceptor's record (the acceptor  *)
(* after the call, the message returned).  Proposer.propose is modelled    *)
(* one acceptor call at a time, so that rounds of different proposers can  *)
(* interleave and acceptors can fail to answer.  SpecAcc drives a single   *)
(* acceptor with arbitrary calls; Spec runs the proposers; SpecLearn adds  *)
(* the learner; SpecRounds makes the propose calls one after the other,    *)
(* SpecRetry does so with every acceptor answering, SpecSolo lets one      *)
(* proposer call again and again, and SpecLearner calls a learner          *)
(* directly.  The ring of src/algorithms/consistent_hashing.py is the      *)
(* object ch, driven by SpecRing.                                          *)
(***************************************************************************)
EXTENDS Integers, Sequences, FiniteSets, TLC

\* ------------------------------------------------------------------ bounds
\* Highest sequence number a proposer reaches (Proposer.seq is unbounded).
MaxSeq == 2
\* Number of acceptors in the list handed to propose.
NumAcceptors == 3
\* Number of propose calls made one after the other with acceptors that may
\* not answer.
MaxCalls == 2
\* Virtual nodes per server (the replicas argument of ConsistentHashing).
Replicas == 2

\* ---------------------------------------------------------------- universe
\* Node ids of the proposers.
NodeIds == {1, 2}
\* Candidate values.
Values == {"A", "B"}
\* Acceptors, by their position in the acceptors list; node_id = position.
Acceptors == 1..NumAcceptors
\* Python's None, for optional proposal numbers, pairs and messages.
None == [none |-> TRUE]
\* Python's None, for an optional value.
NoneValue == "None"

\* ---------------------------------------------------------- ProposalNumber
ProposalNumber(seq, node_id) == [seq |-> seq, node_id |-> node_id]

ProposalNumbers == {ProposalNumber(s, i) : s \in 1..MaxSeq, i \in NodeIds}

\* Python's comparison of the tuples (seq, node_id).
ProposalNumber_lt(x, y) ==
    x.seq < y.seq \/ (x.seq = y.seq /\ x.node_id < y.node_id)

ProposalNumber_le(x, y) ==
    x.seq < y.seq \/ (x.seq = y.seq /\ x.node_id <= y.node_id)

ProposalNumber_gt(x, y) ==
    x.seq > y.seq \/ (x.seq = y.seq /\ x.node_id > y.node_id)

ProposalNumber_ge(x, y) ==
    x.seq > y.seq \/ (x.seq = y.seq /\ x.node_id >= y.node_id)

\* Faulty variant of ProposalNumber_eq: the node id is not compared.
Mutant_ProposalNumber_eq_seq(x, y) ==
    x.seq = y.seq

ProposalNumber_eq(x, y) ==
    x.seq = y.seq /\ x.node_id = y.node_id

\* ----------------------------------------------------------------- Message
Message(msg_type, sender, receiver, proposal_num, value, prev_accepted) ==
    [msg_type |-> msg_type, sender |-> sender, receiver |-> receiver,
     proposal_num |-> proposal_num, value |-> value,
     prev_accepted |-> prev_accepted]

\* ---------------------------------------------------------------- Acceptor
\* An acceptor is the record of its fields: node_id, highest_prepare (None or
\* a proposal number) and accepted (None or the pair (proposal_num, value)).
\* The pair self.accepted.
accepted_pair(proposal_num, value) ==
    [proposal_num |-> proposal_num, value |-> value]

\* The pair prev_accepted of a promise.
prev_accepted_pair(prev_proposal_num, prev_value) ==
    [prev_proposal_num |-> prev_proposal_num, prev_value |-> prev_value]

Acceptor_init(node_id) ==
    [node_id |-> node_id, highest_prepare |-> None, accepted |-> None]

\* Faulty variant of prepare_grants: >= in place of >.
Mutant_prepare_grants_ge(self, proposal_num) ==
    \/ self.highest_prepare = None
    \/ ProposalNumber_ge(proposal_num, self.highest_prepare)

\* Faulty variant of prepare_grants: the comparison is missing.
Mutant_prepare_grants_always(self, proposal_num) ==
    TRUE

\* Acceptor.prepare, the test that grants the promise.
prepare_grants(self, proposal_num) ==
    \/ self.highest_prepare = None
    \/ ProposalNumber_gt(proposal_num, self.highest_prepare)

\* Acceptor.prepare, the prev_accepted field of the promise: the sequence
\* number of the accepted proposal (without its node id) and the value.
prepare_prev_accepted(self) ==
    IF self.accepted # None
    THEN prev_accepted_pair(self.accepted.proposal_num.seq, self.accepted.value)
    ELSE None

\* Faulty variant of Acceptor_prepare_self: a new promise forgets the
\* accepted pair.
Mutant_prepare_clears_accepted(self, proposal_num) ==
    IF prepare_grants(self, proposal_num)
    THEN [self EXCEPT !.highest_prepare = proposal_num, !.accepted = None]
    ELSE self

\* Acceptor.prepare, the acceptor after the call.
Acceptor_prepare_self(self, proposal_num) ==
    IF prepare_grants(self, proposal_num)
    THEN [self EXCEPT !.highest_prepare = proposal_num]
    ELSE self

\* Acceptor.prepare, the returned message (None: rejected).
Acceptor_prepare(self, proposal_num) ==
    IF prepare_grants(self, proposal_num)
    THEN Message("PROMISE", self.node_id, 0, proposal_num.seq, NoneValue,
                 prepare_prev_accepted(self))
    ELSE None

\* Faulty variant of accept_ok: the promise is not consulted.
Mutant_accept_ok_always(self, proposal_num) ==
    TRUE

\* Faulty variant of accept_ok: a number already accepted is refused.
Mutant_accept_ok_once(self, proposal_num) ==
    /\ \/ self.highest_prepare = None
       \/ ProposalNumber_ge(proposal_num, self.highest_prepare)
    /\ \/ self.accepted = None
       \/ ~ProposalNumber_eq(self.accepted.proposal_num, proposal_num)

\* Acceptor.accept, the test that accepts the proposal.
accept_ok(self, proposal_num) ==
    \/ self.highest_prepare = None
    \/ ProposalNumber_ge(proposal_num, self.highest_prepare)

\* Acceptor.accept, the acceptor after the call (highest_prepare is not
\* assigned by accept).
Acceptor_accept_self(self, proposal_num, value) ==
    IF accept_ok(self, proposal_num)
    THEN [self EXCEPT !.accepted = accepted_pair(proposal_num, value)]
    ELSE self

\* Acceptor.accept, the returned message (None: rejected).
Acceptor_accept(self, proposal_num, value) ==
    IF accept_ok(self, proposal_num)
    THEN Message("ACCEPTED", self.node_id, 0, proposal_num.seq, value, None)
    ELSE None

\* ---------------------------------------------------------------- Proposer
Proposer_init(node_id) == [node_id |-> node_id, seq |-> 0]

\* Faulty variant of majority: every acceptor is required.
Mutant_majority_all == NumAcceptors

\* Faulty variant of majority: the + 1 is missing.
Mutant_majority_half == NumAcceptors \div 2

\* majority = len(acceptors) // 2 + 1
majority == NumAcceptors \div 2 + 1

\* The loop of _choose_value_following_paxos_constraint from promise i on;
\* best is <<highest_proposal_num, highest_accepted_value>>.
RECURSIVE choose_scan(_, _, _)
choose_scan(promises, i, best) ==
    IF i > Len(promises) THEN best
    ELSE LET prev == promises[i].prev_accepted IN
         IF prev # None /\ prev.prev_proposal_num > best[1]
         THEN choose_scan(promises, i + 1,
                          <<prev.prev_proposal_num, prev.prev_value>>)
         ELSE choose_scan(promises, i + 1, best)

\* Faulty variant of _choose_value_following_paxos_constraint: the promises
\* are not consulted.
Mutant_choose_original_value(original_value, promises) == original_value

\* Faulty variant of _choose_value_following_paxos_constraint: the value of
\* the scan is returned even when no promise carried a pair.
Mutant_choose_scanned_value(original_value, promises) ==
    choose_scan(promises, 1, <<-1, NoneValue>>)[2]

\* Proposer._choose_value_following_paxos_constraint
choose_value_following_paxos_constraint(original_value, promises) ==
    LET best == choose_scan(promises, 1, <<-1, NoneValue>>) IN
    IF best[2] # NoneValue THEN best[2] ELSE original_value

\* The value each proposer asks for: its own, as the two database nodes of
\* the demonstration do.
candidate(node_id) == IF node_id = 1 THEN "A" ELSE "B"

\* Faulty variant of the list of promise senders: nobody.
Mutant_promise_senders_none(promises) == {}

\* Faulty variant of the list of promise senders: every acceptor.
Mutant_promise_senders_all(promises) == Acceptors

\* [p.sender for p in promises]
promise_senders(promises) == {promises[i].sender : i \in 1..Len(promises)}

\* The locals of a propose call that has not started, or has returned result
\* (its other locals are gone).  reported is history: the accepted pair each
\* promising acceptor held when it promised, in the order of promises.
NoRound ==
    [pc |-> "idle", value |-> NoneValue, proposal_num |-> None, idx |-> 0,
     promises |-> <<>>, final_value |-> NoneValue, accepts |-> <<>>,
     result |-> NoneValue, reported |-> <<>>]

\* ----------------------------------------------------------------- Learner
\* A learner is the record of its fields; values is the dict acceptor_id ->
\* value, kept as the sequence of its items in insertion order.
Learner_init(node_id) == [node_id |-> node_id, values |-> <<>>]

\* Faulty variant of the dict assignment: an item is added even when the key
\* is present.
Mutant_dict_set_append(items, key, value) == Append(items, <<key, value>>)

\* self.values[acceptor_id] = value
dict_set(items, key, value) ==
    IF \E i \in 1..Len(items) : items[i][1] = key
    THEN [i \in 1..Len(items) |->
            IF items[i][1] = key THEN <<key, value>> ELSE items[i]]
    ELSE Append(items, <<key, value>>)

\* Learner.learn
Learner_learn(self, acceptor_id, value) ==
    [self EXCEPT !.values = dict_set(@, acceptor_id, value)]

\* Learner.get_consensus: the first value, in the order value_counts was
\* filled, whose count reaches the threshold.
Learner_get_consensus(self, total_acceptors) ==
    LET items == self.values
        count(v) == Cardinality({i \in 1..Len(items) : items[i][2] = v})
        majority_threshold == total_acceptors \div 2 + 1
        hits == {i \in 1..Len(items) : count(items[i][2]) >= majority_threshold}
    IN  IF Len(items) = 0 \/ hits = {} THEN NoneValue
        ELSE items[CHOOSE i \in hits : \A k \in hits : i <= k][2]

\* The node id of the learner.
LearnerId == 20

\* ------------------------------------------------------- ConsistentHashing
\* The servers of the ring and a key that is not a virtual key.
Servers == {"Server_A", "Server_B"}
DataKeys == {"user_123"}

\* virtual_key = f"{node}:{replica_index}"
virtual_key(node, replica_index) == node \o ":" \o ToString(replica_index)

VirtualKeys == {virtual_key(n, i) : n \in Servers, i \in 0..(Replicas - 1)}

\* The strings that are hashed: virtual keys and the keys looked up, among
\* which are strings that are virtual keys.
Strings == VirtualKeys \cup DataKeys

\* A ConsistentHashing object is the record of its fields; ring is the dict
\* position -> node, as a function on the positions it holds.
ConsistentHashing_init ==
    [replicas |-> Replicas, ring |-> [pos \in {} |-> NoneValue],
     sorted_hashes |-> <<>>, nodes |-> {}]

\* self.ring[hash_position] = node
ring_set(ring, hash_position, node) ==
    [pos \in DOMAIN ring \cup {hash_position} |->
        IF pos = hash_position THEN node ELSE ring[pos]]

\* del self.ring[hash_position]
ring_del(ring, hash_position) ==
    [pos \in DOMAIN ring \ {hash_position} |-> ring[pos]]

\* bisect.bisect_right(a, x), the binary search between lo and hi; indices
\* count from 0 as in Python, a[mid + 1] is Python's a[mid].
RECURSIVE bisect_search(_, _, _, _)
bisect_search(a, x, lo, hi) ==
    IF lo < hi
    THEN LET mid == (lo + hi) \div 2 IN
         IF x < a[mid + 1]
         THEN bisect_search(a, x, lo, mid)
         ELSE bisect_search(a, x, mid + 1, hi)
    ELSE lo

bisect_right(a, x) == bisect_search(a, x, 0, Len(a))

\* Faulty variant of bisect.insort: the position is appended.
Mutant_insort_append(a, x) == Append(a, x)

\* bisect.insort(a, x): a.insert(bisect_right(a, x), x)
insort(a, x) ==
    LET i == bisect_right(a, x) IN
    SubSeq(a, 1, i) \o <<x>> \o SubSeq(a, i + 1, Len(a))

\* Faulty variant of list.remove: the last item is removed.
Mutant_list_remove_last(a, x) == SubSeq(a, 1, Len(a) - 1)

\* list.remove(x): the first occurrence is removed (x occurs in a).
list_remove(a, x) ==
    LET i == CHOOSE k \in 1..Len(a) :
                 a[k] = x /\ \A j \in 1..(k - 1) : a[j] # x
    IN  SubSeq(a, 1, i - 1) \o SubSeq(a, i + 1, Len(a))

VARIABLES
    acceptors,        \* the Acceptor objects, by position in the list
    proposers,        \* the Proposer objects, by node id
    round,            \* per proposer, the locals of its running propose call
    learner,          \* the Learner object
    returned,         \* history: <<number, value>> of every successful propose
    consensus,        \* history: the non-empty results of get_consensus
    last,             \* history: the latest direct call, the acceptor it
                      \* met (pre), its response and, when it repeats the
                      \* call before it, that call's response (prev_resp)
    first_prepare,    \* history: per acceptor and number, the kind of answer
                      \* to the first prepare with that number
    granted,          \* history: per acceptor, the numbers it promised
    used,             \* history: per proposer, the numbers of its propose
                      \* calls, in the order of the calls
    latest,           \* history: the latest propose call that ran alone:
                      \* the acceptors it met and which of them did not
                      \* answer, what it sent in Phase 2, what it returned
    rejected,         \* history: per proposer, the highest promise that
                      \* rejected a Prepare of its current (cur) and of its
                      \* previous (prev) propose call
    asked,            \* history: the latest direct get_consensus call
    ch,               \* the ConsistentHashing object
    sha,              \* the SHA-256 position of every string in use
    ring_last,        \* history: the latest add_node or remove_node call
                      \* and the ConsistentHashing object it met
    sends,            \* history: per acceptor, the Prepare and the Accept
                      \* messages the latest propose call that ran alone
                      \* sent to it
    acceptances       \* history: every acceptance the learner was told of,
                      \* with the number it was made under

acceptor_history == <<last, first_prepare, granted>>
proposer_vars == <<proposers, round, returned>>
learner_vars == <<learner, consensus>>
round_history == <<used, latest, rejected>>
ring_vars == <<ch, sha, ring_last>>
message_history == <<sends, acceptances>>
later_vars == <<round_history, asked, ring_vars, message_history>>
vars == <<acceptors, proposers, round, learner, returned, consensus,
          last, first_prepare, granted, used, latest, rejected, asked,
          ch, sha, ring_last, sends, acceptances>>

\* ------------------------------------------- one acceptor, arbitrary calls
\* The acceptor that is called directly.
DirectAcceptors == {CHOOSE a \in Acceptors : TRUE}

NoCall == [kind |-> "none"]
\* No prepare with this number has been delivered yet.
Unseen == "unseen"

\* The kind of a response: a message or None.
Kind(resp) == IF resp = None THEN "reject" ELSE "promise"

\* Whether the call (kind, a, n, v) repeats the latest call.
SameAsLast(kind, a, n, v) ==
    /\ last.kind = kind
    /\ last.a = a
    /\ last.n = n
    /\ last.v = v

\* A caller invokes prepare(proposal_num) on acceptor a.
CallPrepare(a, proposal_num) ==
    LET resp == Acceptor_prepare(acceptors[a], proposal_num) IN
    /\ acceptors' =
         [acceptors EXCEPT ![a] = Acceptor_prepare_self(@, proposal_num)]
    /\ last' = [kind |-> "prepare", a |-> a, n |-> proposal_num,
                v |-> NoneValue, resp |-> resp, pre |-> acceptors[a],
                repeat |-> SameAsLast("prepare", a, proposal_num, NoneValue),
                prev_resp |->
                    IF SameAsLast("prepare", a, proposal_num, NoneValue)
                    THEN last.resp ELSE None,
                first |-> first_prepare[a][proposal_num]]
    /\ first_prepare' =
         [first_prepare EXCEPT
            ![a][proposal_num] = IF @ = Unseen THEN Kind(resp) ELSE @]
    /\ granted' =
         [granted EXCEPT
            ![a] = IF resp # None THEN @ \cup {proposal_num} ELSE @]
    /\ UNCHANGED <<proposer_vars, learner_vars, later_vars>>

\* A caller invokes accept(proposal_num, value) on acceptor a.
CallAccept(a, proposal_num, value) ==
    /\ acceptors' =
         [acceptors EXCEPT ![a] = Acceptor_accept_self(@, proposal_num, value)]
    /\ last' = [kind |-> "accept", a |-> a, n |-> proposal_num, v |-> value,
                resp |-> Acceptor_accept(acceptors[a], proposal_num, value),
                pre |-> acceptors[a],
                repeat |-> SameAsLast("accept", a, proposal_num, value),
                prev_resp |->
                    IF SameAsLast("accept", a, proposal_num, value)
                    THEN last.resp ELSE None,
                first |-> Unseen]
    /\ UNCHANGED <<first_prepare, granted, proposer_vars, learner_vars,
                   later_vars>>

\* ------------------------------------------------ propose, call by call
\* Faulty variant of propose_start: self.seq is not incremented.
Mutant_propose_start_keeps_seq(p, value) ==
    /\ round[p].pc = "idle"
    /\ proposers[p].seq < MaxSeq
    /\ round' = [round EXCEPT
         ![p] = [NoRound EXCEPT
                   !.pc = "phase1", !.value = value, !.idx = 1,
                   !.proposal_num =
                       ProposalNumber(proposers[p].seq + 1,
                                      proposers[p].node_id)]]
    /\ UNCHANGED <<acceptors, proposers, returned>>

\* propose(value, acceptors) is entered: the proposal number is drawn.
propose_start(p, value) ==
    /\ round[p].pc = "idle"
    /\ proposers[p].seq < MaxSeq
    /\ proposers' = [proposers EXCEPT ![p].seq = @ + 1]
    /\ round' = [round EXCEPT
         ![p] = [NoRound EXCEPT
                   !.pc = "phase1", !.value = value, !.idx = 1,
                   !.proposal_num =
                       ProposalNumber(proposers[p].seq + 1,
                                      proposers[p].node_id)]]
    /\ UNCHANGED <<acceptors, returned>>

\* Faulty variant of propose_prepare: an acceptor that rejects the Prepare is
\* asked again.
Mutant_prepare_retries(p) ==
    LET r == round[p]
        resp == Acceptor_prepare(acceptors[r.idx], r.proposal_num)
    IN
    /\ r.pc = "phase1"
    /\ r.idx <= NumAcceptors
    /\ acceptors' =
         [acceptors EXCEPT ![r.idx] = Acceptor_prepare_self(@, r.proposal_num)]
    /\ round' = [round EXCEPT
         ![p].idx = IF resp # None THEN @ + 1 ELSE @,
         ![p].promises = IF resp # None THEN Append(@, resp) ELSE @,
         ![p].reported =
             IF resp # None THEN Append(@, acceptors[r.idx].accepted) ELSE @]
    /\ UNCHANGED <<proposers, returned>>

\* Phase 1 loop body: the next acceptor answers the Prepare.
propose_prepare(p) ==
    LET r == round[p]
        resp == Acceptor_prepare(acceptors[r.idx], r.proposal_num)
    IN
    /\ r.pc = "phase1"
    /\ r.idx <= NumAcceptors
    /\ acceptors' =
         [acceptors EXCEPT ![r.idx] = Acceptor_prepare_self(@, r.proposal_num)]
    /\ round' = [round EXCEPT
         ![p].idx = @ + 1,
         ![p].promises = IF resp # None THEN Append(@, resp) ELSE @,
         ![p].reported =
             IF resp # None THEN Append(@, acceptors[r.idx].accepted) ELSE @]
    /\ UNCHANGED <<proposers, returned>>

\* Phase 1 loop body: the next acceptor does not answer (no response).
propose_prepare_unanswered(p) ==
    /\ round[p].pc = "phase1"
    /\ round[p].idx <= NumAcceptors
    /\ round' = [round EXCEPT ![p].idx = @ + 1]
    /\ UNCHANGED <<acceptors, proposers, returned>>

\* Faulty variant of propose_phase1_end: Phase 2 is entered whatever the
\* number of promises.
Mutant_phase1_end_no_test(p) ==
    LET r == round[p] IN
    /\ r.pc = "phase1"
    /\ r.idx = NumAcceptors + 1
    /\ round' = [round EXCEPT
         ![p].pc = "phase2", ![p].idx = 1,
         ![p].final_value =
             choose_value_following_paxos_constraint(r.value, r.promises)]
    /\ UNCHANGED <<acceptors, proposers, returned>>

\* After the Phase 1 loop: the majority test and the choice of the value.
propose_phase1_end(p) ==
    LET r == round[p] IN
    /\ r.pc = "phase1"
    /\ r.idx = NumAcceptors + 1
    /\ IF Len(r.promises) < majority
       THEN round' = [round EXCEPT ![p] = NoRound]
       ELSE round' = [round EXCEPT
              ![p].pc = "phase2", ![p].idx = 1,
              ![p].final_value =
                  choose_value_following_paxos_constraint(r.value, r.promises)]
    /\ UNCHANGED <<acceptors, proposers, returned>>

\* What the Phase 2 loop body does to the proposer for acceptor r.idx that
\* answers: the Accept goes only to acceptors who promised.
propose_accept_round(p) ==
    LET r == round[p]
        resp == Acceptor_accept(acceptors[r.idx], r.proposal_num, r.final_value)
    IN
    /\ r.pc = "phase2"
    /\ r.idx <= NumAcceptors
    /\ IF acceptors[r.idx].node_id \in promise_senders(r.promises)
       THEN /\ acceptors' =
                 [acceptors EXCEPT
                    ![r.idx] = Acceptor_accept_self(@, r.proposal_num,
                                                    r.final_value)]
            /\ round' = [round EXCEPT
                 ![p].idx = @ + 1,
                 ![p].accepts = IF resp # None THEN Append(@, resp) ELSE @]
       ELSE /\ round' = [round EXCEPT ![p].idx = @ + 1]
            /\ UNCHANGED acceptors
    /\ UNCHANGED <<proposers, returned>>

\* Phase 2 loop body: the next acceptor, which promised, does not answer.
propose_accept_unanswered(p) ==
    /\ round[p].pc = "phase2"
    /\ round[p].idx <= NumAcceptors
    /\ acceptors[round[p].idx].node_id \in promise_senders(round[p].promises)
    /\ round' = [round EXCEPT ![p].idx = @ + 1]
    /\ UNCHANGED <<acceptors, proposers, returned>>

\* Faulty variant of propose_phase2_end: the value is returned whatever the
\* number of Accepted responses.
Mutant_phase2_end_no_test(p) ==
    LET r == round[p] IN
    /\ r.pc = "phase2"
    /\ r.idx = NumAcceptors + 1
    /\ round' = [round EXCEPT
         ![p] = [NoRound EXCEPT !.result = r.final_value]]
    /\ returned' = returned \cup {<<r.proposal_num, r.final_value>>}
    /\ UNCHANGED <<acceptors, proposers>>

\* After the Phase 2 loop: the majority test and the return.
propose_phase2_end(p) ==
    LET r == round[p] IN
    /\ r.pc = "phase2"
    /\ r.idx = NumAcceptors + 1
    /\ IF Len(r.accepts) >= majority
       THEN /\ round' = [round EXCEPT
                 ![p] = [NoRound EXCEPT !.result = r.final_value]]
            /\ returned' = returned \cup {<<r.proposal_num, r.final_value>>}
       ELSE /\ round' = [round EXCEPT ![p] = NoRound]
            /\ UNCHANGED returned
    /\ UNCHANGED <<acceptors, proposers>>

\* The acceptor reached by the Phase 2 loop body accepts and the learner is
\* told: learner.learn(acceptor.node_id, value).
learn_accepted(p) ==
    LET r == round[p] IN
    IF /\ acceptors[r.idx].node_id \in promise_senders(r.promises)
       /\ Acceptor_accept(acceptors[r.idx], r.proposal_num, r.final_value) # None
    THEN learner' = Learner_learn(learner, acceptors[r.idx].node_id,
                                  r.final_value)
    ELSE UNCHANGED learner

\* learner.get_consensus(len(acceptors)) is called and its result noted.
observe_consensus ==
    LET c == Learner_get_consensus(learner, NumAcceptors) IN
    /\ c # NoneValue
    /\ c \notin consensus
    /\ consensus' = consensus \cup {c}
    /\ UNCHANGED <<acceptors, proposer_vars, learner, acceptor_history,
                   later_vars>>

\* --------------------------------------------- ConsistentHashing, its calls
\* ConsistentHashing._hash
ConsistentHashing_hash(key) == sha[key]

\* The loop of add_node from replica_index on.
RECURSIVE add_replicas(_, _, _)
add_replicas(self, node, replica_index) ==
    IF replica_index >= self.replicas THEN self
    ELSE LET hash_position ==
                 ConsistentHashing_hash(virtual_key(node, replica_index))
         IN  add_replicas(
                 [self EXCEPT
                    !.ring = ring_set(@, hash_position, node),
                    !.sorted_hashes = insort(@, hash_position)],
                 node, replica_index + 1)

\* ConsistentHashing.add_node, the object after the call.
add_node(self, node) ==
    add_replicas([self EXCEPT !.nodes = @ \cup {node}], node, 0)

\* The loop of remove_node from replica_index on.
RECURSIVE remove_replicas(_, _, _)
remove_replicas(self, node, replica_index) ==
    IF replica_index >= self.replicas THEN self
    ELSE LET hash_position ==
                 ConsistentHashing_hash(virtual_key(node, replica_index))
         IN  remove_replicas(
                 IF hash_position \in DOMAIN self.ring
                 THEN [self EXCEPT
                         !.ring = ring_del(@, hash_position),
                         !.sorted_hashes = list_remove(@, hash_position)]
                 ELSE self,
                 node, replica_index + 1)

\* Faulty variant of remove_node: the node stays in self.nodes.
Mutant_remove_node_keeps_nodes(self, node) ==
    IF node \notin self.nodes THEN self
    ELSE remove_replicas(self, node, 0)

\* ConsistentHashing.remove_node, the object after the call.
remove_node(self, node) ==
    IF node \notin self.nodes THEN self
    ELSE remove_replicas([self EXCEPT !.nodes = @ \ {node}], node, 0)

\* self.ring[server_hash_position] raised KeyError.
KeyError == "KeyError"

\* ConsistentHashing.get_node: the node returned, NoneValue, or KeyError.
get_node(self, key) ==
    IF DOMAIN self.ring = {} THEN NoneValue
    ELSE LET key_hash == ConsistentHashing_hash(key)
             found == bisect_right(self.sorted_hashes, key_hash)
             server_index ==
                 IF found = Len(self.sorted_hashes) THEN 0 ELSE found
             server_hash_position == self.sorted_hashes[server_index + 1]
         IN  IF server_hash_position \in DOMAIN self.ring
             THEN self.ring[server_hash_position]
             ELSE KeyError

\* No add_node or remove_node call has been made.
NoRingCall == [op |-> "none", node |-> NoneValue, before |-> ConsistentHashing_init]

\* The most positions sorted_hashes is let to hold: every server's twice.
MaxRingLen == 2 * Replicas * Cardinality(Servers)

\* A caller invokes add_node(node), for a node in the ring or not.
AddNode ==
    \E node \in Servers :
        /\ Len(ch.sorted_hashes) + Replicas <= MaxRingLen
        /\ ch' = add_node(ch, node)
        /\ ring_last' = [op |-> "add", node |-> node, before |-> ch]
        /\ UNCHANGED <<acceptors, proposer_vars, learner_vars,
                       acceptor_history, round_history, asked, sha,
                       message_history>>

\* A caller invokes remove_node(node), for a node in the ring or not.
RemoveNode ==
    \E node \in Servers :
        /\ ch' = remove_node(ch, node)
        /\ ring_last' = [op |-> "remove", node |-> node, before |-> ch]
        /\ UNCHANGED <<acceptors, proposer_vars, learner_vars,
                       acceptor_history, round_history, asked, sha,
                       message_history>>

\* ----------------------------------------------------------- specifications
AcceptorsInit ==
    acceptors = [a \in Acceptors |-> Acceptor_init(a)]

HistoryInit ==
    /\ last = NoCall
    /\ first_prepare = [a \in Acceptors |-> [n \in ProposalNumbers |-> Unseen]]
    /\ granted = [a \in Acceptors |-> {}]

ProposersInit ==
    /\ proposers = [p \in NodeIds |-> Proposer_init(p)]
    /\ round = [p \in NodeIds |-> NoRound]
    /\ returned = {}

LearnerInit ==
    /\ learner = Learner_init(LearnerId)
    /\ consensus = {}

\* No propose call has run alone yet.
NoLatest ==
    [p |-> 0, proposal_num |-> None, value |-> NoneValue, unreachable |-> {},
     before |-> [a \in Acceptors |-> Acceptor_init(a)],
     sent |-> NoneValue, done |-> FALSE, result |-> NoneValue]

\* get_consensus has not been called directly since the last learn.
NotAsked == [total |-> -1, result |-> NoneValue]

RoundHistoryInit ==
    /\ used = [p \in NodeIds |-> <<>>]
    /\ latest = NoLatest
    /\ rejected = [p \in NodeIds |-> [prev |-> None, cur |-> None]]
    /\ asked = NotAsked

\* No message has been sent.
NoSends ==
    [prepare |-> [a \in Acceptors |-> 0], accept |-> [a \in Acceptors |-> 0]]

MessageHistoryInit ==
    /\ sends = NoSends
    /\ acceptances = {}

\* ConsistentHashing._hash on the strings in use: SHA-256 sends distinct
\* strings to distinct positions, in an order the model does not know;
\* positions are taken up to their order.
HashFunctions ==
    {h \in [Strings -> 1..Cardinality(Strings)] :
        \A s, t \in Strings : s # t => h[s] # h[t]}

\* The ring before any call, under one of the hash functions hashes.
RingInit(hashes) ==
    /\ ch = ConsistentHashing_init
    /\ sha \in hashes
    /\ ring_last = NoRingCall

\* The state after construction; the Paxos objects do not use the ring, which
\* is given one hash function.
Init ==
    /\ AcceptorsInit
    /\ HistoryInit
    /\ ProposersInit
    /\ LearnerInit
    /\ RoundHistoryInit
    /\ MessageHistoryInit
    /\ RingInit({CHOOSE h \in HashFunctions : TRUE})

\* The state after construction, for every hash function.
InitRing ==
    /\ AcceptorsInit
    /\ HistoryInit
    /\ ProposersInit
    /\ LearnerInit
    /\ RoundHistoryInit
    /\ MessageHistoryInit
    /\ RingInit(HashFunctions)

\* One acceptor under arbitrary prepare and accept calls.
NextAcc ==
    \E a \in DirectAcceptors, n \in ProposalNumbers :
        \/ CallPrepare(a, n)
        \/ \E v \in Values : CallAccept(a, n, v)

SpecAcc == Init /\ [][NextAcc]_vars

\* The steps of propose that do not call accept, for any proposer.
ProposeStart ==
    \E p \in NodeIds :
        /\ propose_start(p, candidate(p))
        /\ UNCHANGED <<learner_vars, acceptor_history, later_vars>>

Prepare ==
    \E p \in NodeIds :
        propose_prepare(p) /\ UNCHANGED <<learner_vars, acceptor_history, later_vars>>

PrepareUnanswered ==
    \E p \in NodeIds :
        /\ propose_prepare_unanswered(p)
        /\ UNCHANGED <<learner_vars, acceptor_history, later_vars>>

Phase1End ==
    \E p \in NodeIds :
        propose_phase1_end(p) /\ UNCHANGED <<learner_vars, acceptor_history, later_vars>>

AcceptUnanswered ==
    \E p \in NodeIds :
        /\ propose_accept_unanswered(p)
        /\ UNCHANGED <<learner_vars, acceptor_history, later_vars>>

Phase2End ==
    \E p \in NodeIds :
        propose_phase2_end(p) /\ UNCHANGED <<learner_vars, acceptor_history, later_vars>>

\* The Phase 2 loop body with nobody telling the learner.
Accept ==
    \E p \in NodeIds :
        propose_accept_round(p) /\ UNCHANGED <<learner_vars, acceptor_history, later_vars>>

\* The Phase 2 loop body with the learner told of the acceptance.
AcceptLearn ==
    \E p \in NodeIds :
        /\ propose_accept_round(p)
        /\ learn_accepted(p)
        /\ UNCHANGED <<consensus, acceptor_history, later_vars>>

\* Proposers running propose against the same acceptors, interleaved.
Next ==
    \/ ProposeStart
    \/ Prepare
    \/ PrepareUnanswered
    \/ Phase1End
    \/ Accept
    \/ AcceptUnanswered
    \/ Phase2End

Spec == Init /\ [][Next]_vars

\* The same, with the learner told of every acceptance.
NextLearn ==
    \/ ProposeStart
    \/ Prepare
    \/ PrepareUnanswered
    \/ Phase1End
    \/ AcceptLearn
    \/ AcceptUnanswered
    \/ Phase2End
    \/ observe_consensus

SpecLearn == Init /\ [][NextLearn]_vars

\* ------------------------------------- propose calls that run one at a time
\* No propose call is running.
AllIdle == \A q \in NodeIds : round[q].pc = "idle"

\* The number of propose calls made so far.
Calls == Cardinality({<<p, i>> \in NodeIds \X (1..MaxSeq) : i <= Len(used[p])})

\* Proposer p calls propose while no other call runs; the acceptors in
\* unreachable answer nothing to this call.
round_start(p, unreachable) ==
    /\ AllIdle
    /\ propose_start(p, candidate(p))
    /\ used' = [used EXCEPT ![p] = Append(@, round'[p].proposal_num)]
    /\ latest' = [p |-> p, proposal_num |-> round'[p].proposal_num,
                  value |-> round'[p].value, unreachable |-> unreachable,
                  before |-> acceptors, sent |-> NoneValue,
                  done |-> FALSE, result |-> NoneValue]
    /\ rejected' = [rejected EXCEPT ![p] = [prev |-> @.cur, cur |-> None]]
    /\ sends' = NoSends
    /\ UNCHANGED <<learner_vars, acceptor_history, asked, ring_vars,
                   acceptances>>

\* One of the first calls: any acceptors may be unreachable.
RoundStart ==
    \E p \in NodeIds, unreachable \in SUBSET Acceptors :
        Calls < MaxCalls /\ round_start(p, unreachable)

\* A call that every acceptor answers.
RetryStart ==
    \E p \in NodeIds :
        /\ proposers[p].seq < MaxSeq
        /\ round_start(p, {})

\* The higher of a noted promise (or None) and the promise m.
HigherPromise(noted, m) ==
    IF noted = None \/ ProposalNumber_gt(m, noted) THEN m ELSE noted

\* Phase 1 loop body on an acceptor that answers.
RoundPrepare ==
    \E p \in NodeIds :
        /\ round[p].idx \notin latest.unreachable
        /\ propose_prepare(p)
        /\ rejected' =
             IF Acceptor_prepare(acceptors[round[p].idx],
                                 round[p].proposal_num) = None
             THEN [rejected EXCEPT
                     ![p].cur =
                         HigherPromise(@,
                             acceptors[round[p].idx].highest_prepare)]
             ELSE rejected
        /\ sends' = [sends EXCEPT !.prepare[round[p].idx] = @ + 1]
        /\ UNCHANGED <<learner_vars, acceptor_history, used, latest, asked,
                       ring_vars, acceptances>>

\* Phase 1 loop body on an acceptor that does not answer.
RoundPrepareUnreachable ==
    \E p \in NodeIds :
        /\ round[p].idx \in latest.unreachable
        /\ propose_prepare_unanswered(p)
        /\ sends' = [sends EXCEPT !.prepare[round[p].idx] = @ + 1]
        /\ UNCHANGED <<learner_vars, acceptor_history, round_history, asked,
                       ring_vars, acceptances>>

\* The majority test after Phase 1: the call returns None or enters Phase 2.
RoundPhase1End ==
    \E p \in NodeIds :
        /\ propose_phase1_end(p)
        /\ latest' =
             IF round'[p].pc = "idle"
             THEN [latest EXCEPT !.done = TRUE, !.result = round'[p].result]
             ELSE [latest EXCEPT !.sent = round'[p].final_value]
        /\ UNCHANGED <<learner_vars, acceptor_history, used, rejected, asked,
                       ring_vars, message_history>>

\* The messages sent once the Phase 2 loop body has run for the next
\* acceptor: an Accept goes to it if it promised.
accept_sent(p) ==
    IF acceptors[round[p].idx].node_id \in promise_senders(round[p].promises)
    THEN [sends EXCEPT !.accept[round[p].idx] = @ + 1]
    ELSE sends

\* Phase 2 loop body: acceptors that did not promise are skipped.
RoundAccept ==
    \E p \in NodeIds :
        /\ propose_accept_round(p)
        /\ sends' = accept_sent(p)
        /\ UNCHANGED <<learner_vars, acceptor_history, round_history, asked,
                       ring_vars, acceptances>>

\* The majority test after Phase 2 and the return.
RoundPhase2End ==
    \E p \in NodeIds :
        /\ propose_phase2_end(p)
        /\ latest' = [latest EXCEPT !.done = TRUE, !.result = round'[p].result]
        /\ UNCHANGED <<learner_vars, acceptor_history, used, rejected, asked,
                       ring_vars, message_history>>

\* propose calls one after the other, as the demonstration makes them, each
\* with some acceptors that do not answer.
NextRounds ==
    \/ RoundStart
    \/ RoundPrepare
    \/ RoundPrepareUnreachable
    \/ RoundPhase1End
    \/ RoundAccept
    \/ RoundPhase2End

SpecRounds == Init /\ [][NextRounds]_vars

\* propose calls one after the other that every acceptor answers: a proposer
\* whose call returned None calls again.
NextRetry ==
    \/ RetryStart
    \/ RoundPrepare
    \/ RoundPhase1End
    \/ RoundAccept
    \/ RoundPhase2End

SpecRetry == Init /\ [][NextRetry]_vars

\* ------------------------- calls one after the other, Accepts unanswered
\* The acceptor reached by the Phase 2 loop body of p answers Accepted.
answers_accepted(p) ==
    /\ acceptors[round[p].idx].node_id \in promise_senders(round[p].promises)
    /\ Acceptor_accept(acceptors[round[p].idx], round[p].proposal_num,
                       round[p].final_value) # None

\* Phase 2 loop body with a learner that is told every acceptance, as
\* learner.learn(acceptor.node_id, value) would be on each Accepted.
LearnedAccept ==
    \E p \in NodeIds :
        /\ propose_accept_round(p)
        /\ learn_accepted(p)
        /\ sends' = accept_sent(p)
        /\ acceptances' =
             IF answers_accepted(p)
             THEN acceptances \cup
                      {[acceptor |-> acceptors[round[p].idx].node_id,
                        proposal_num |-> round[p].proposal_num,
                        value |-> round[p].final_value]}
             ELSE acceptances
        /\ UNCHANGED <<consensus, acceptor_history, round_history, asked,
                       ring_vars>>

\* Phase 2 loop body on an acceptor that promised and does not answer the
\* Accept sent to it.
RoundAcceptUnanswered ==
    \E p \in NodeIds :
        /\ propose_accept_unanswered(p)
        /\ sends' = accept_sent(p)
        /\ UNCHANGED <<learner_vars, acceptor_history, round_history, asked,
                       ring_vars, acceptances>>

\* A call whose Prepare every acceptor answers.
AnsweredStart ==
    \E p \in NodeIds :
        /\ Calls < MaxCalls
        /\ round_start(p, {})

\* propose calls one after the other; every acceptor answers the Prepare,
\* with a Promise or not, and may leave the Accept unanswered; the learner
\* is told every acceptance.
NextLossy ==
    \/ AnsweredStart
    \/ RoundPrepare
    \/ RoundPhase1End
    \/ LearnedAccept
    \/ RoundAcceptUnanswered
    \/ RoundPhase2End

SpecLossy == Init /\ [][NextLossy]_vars

\* ------------------------------------ one proposer that keeps calling propose
\* The proposer that keeps calling: the one with the lowest node id, which
\* loses every tie on seq.
SoloProposer == CHOOSE p \in NodeIds : \A q \in NodeIds : p <= q

\* Before the first call of that proposer, another proposer makes calls,
\* which leave promises (and accepted pairs) on the acceptors.
EarlierStart ==
    \E p \in NodeIds \ {SoloProposer}, unreachable \in SUBSET Acceptors :
        /\ used[SoloProposer] = <<>>
        /\ proposers[p].seq < MaxSeq - 1
        /\ round_start(p, unreachable)

\* The proposer calls propose, again after every return; the acceptors that
\* do not answer are fewer than a majority and the same at every call.
SoloStart ==
    \E unreachable \in SUBSET Acceptors :
        /\ Cardinality(unreachable) <= (NumAcceptors - 1) \div 2
        /\ used[SoloProposer] # <<>> => unreachable = latest.unreachable
        /\ round_start(SoloProposer, unreachable)

NextSolo ==
    \/ EarlierStart
    \/ SoloStart
    \/ RoundPrepare
    \/ RoundPrepareUnreachable
    \/ RoundPhase1End
    \/ RoundAccept
    \/ RoundPhase2End

\* Every call runs to its return (propose is synchronous) and the proposer
\* keeps calling.
SpecSolo == Init /\ [][NextSolo]_vars /\ WF_vars(NextSolo)

\* A call that at most f of the 2f+1 acceptors do not answer at all, the
\* same acceptors at every call.
UnansweredStart ==
    \E p \in NodeIds, unreachable \in SUBSET Acceptors :
        /\ Calls < MaxCalls
        /\ Cardinality(unreachable) <= (NumAcceptors - 1) \div 2
        /\ latest.p \in NodeIds => unreachable = latest.unreachable
        /\ round_start(p, unreachable)

\* Calls one after the other, in which an acceptor that promised may also
\* leave the Accept unanswered.
NextUnanswered ==
    \/ UnansweredStart
    \/ RoundPrepare
    \/ RoundPrepareUnreachable
    \/ RoundPhase1End
    \/ RoundAccept
    \/ RoundAcceptUnanswered
    \/ RoundPhase2End

\* Every call runs to its return: propose is synchronous code, a Prepare or
\* an Accept that gets no answer is a call that returns nothing.
SpecUnanswered == Init /\ [][NextUnanswered]_vars /\ WF_vars(NextUnanswered)

\* ------------------------------------------------ a learner, called directly
\* The numbers of acceptors a caller may hand to get_consensus.
Totals == 1..(NumAcceptors + 1)

\* An acceptor's acceptance of value is notified: learner.learn(id, value).
LearnCall ==
    \E a \in Acceptors, value \in Values :
        /\ learner' = Learner_learn(learner, acceptors[a].node_id, value)
        /\ asked' = NotAsked
        /\ UNCHANGED <<acceptors, proposer_vars, consensus, acceptor_history,
                       round_history, ring_vars, message_history>>

\* learner.get_consensus(total_acceptors) is called.
GetConsensus ==
    \E total_acceptors \in Totals :
        /\ asked' = [total |-> total_acceptors,
                     result |-> Learner_get_consensus(learner,
                                                      total_acceptors)]
        /\ UNCHANGED <<acceptors, proposer_vars, learner_vars,
                       acceptor_history, round_history, ring_vars,
                       message_history>>

NextLearner ==
    \/ LearnCall
    \/ GetConsensus
    \/ observe_consensus

SpecLearner == Init /\ [][NextLearner]_vars

\* ------------------------------------------------- the ring, called directly
NextRing ==
    \/ AddNode
    \/ RemoveNode

SpecRing == InitRing /\ [][NextRing]_vars

\* ------------------------------------------------- claims on the acceptor
\* The test of Acceptor.prepare, restated on the call's record.
LastPrepareShouldGrant ==
    \/ last.pre.highest_prepare = None
    \/ ProposalNumber_gt(last.n, last.pre.highest_prepare)

\* The test of Acceptor.accept, restated on the call's record.
LastAcceptShouldSucceed ==
    \/ last.pre.highest_prepare = None
    \/ ProposalNumber_ge(last.n, last.pre.highest_prepare)

\* C4: prepare(n) grants a Promise and sets promised := n exactly when
\* promised is unset or n > promised; otherwise it rejects and leaves
\* promised and accepted unchanged; prepare never changes accepted.
C4_PrepareGrantsExactly ==
    last.kind = "prepare" =>
        /\ (last.resp # None) <=> LastPrepareShouldGrant
        /\ LastPrepareShouldGrant =>
               /\ last.resp.msg_type = "PROMISE"
               /\ acceptors[last.a].highest_prepare = last.n
        /\ ~LastPrepareShouldGrant => acceptors[last.a] = last.pre
        /\ acceptors[last.a].accepted = last.pre.accepted

\* A prepare was granted over an earlier promise, on an acceptor that has
\* accepted a value.
C4_Witness ==
    /\ last.kind = "prepare"
    /\ last.resp # None
    /\ last.pre.highest_prepare # None
    /\ last.pre.accepted # None

\* C5: accept(n, v) succeeds exactly when promised is unset or n >= promised;
\* after a successful accept promised = n and accepted = (n, v); a rejected
\* accept leaves promised and accepted unchanged.
C5_AcceptSetsPromisedAndAccepted ==
    last.kind = "accept" =>
        /\ (last.resp # None) <=> LastAcceptShouldSucceed
        /\ LastAcceptShouldSucceed =>
               /\ acceptors[last.a].highest_prepare = last.n
               /\ acceptors[last.a].accepted = accepted_pair(last.n, last.v)
        /\ ~LastAcceptShouldSucceed => acceptors[last.a] = last.pre

\* C6: once an acceptor has granted a Promise for n, every later accept(m, v)
\* with m < n is rejected and does not change its accepted pair.
C6_PromiseEnforcedByAccept ==
    (/\ last.kind = "accept"
     /\ \E n \in granted[last.a] : ProposalNumber_lt(last.n, n)) =>
        /\ last.resp = None
        /\ acceptors[last.a].accepted = last.pre.accepted

\* An accept below a granted promise reached an acceptor that holds an
\* accepted pair.
C6_Witness ==
    /\ last.kind = "accept"
    /\ \E n \in granted[last.a] : ProposalNumber_lt(last.n, n)
    /\ last.pre.accepted # None

\* C7: over any sequence of prepare and accept calls, highest_prepare never
\* decreases and never returns to unset once set.
C7_PromisedMonotone ==
    [][\A a \in Acceptors :
          acceptors[a].highest_prepare # None =>
              /\ acceptors'[a].highest_prepare # None
              /\ ProposalNumber_ge(acceptors'[a].highest_prepare,
                                   acceptors[a].highest_prepare)]_vars

\* A prepare with a number below the promised one was delivered.
C7_Witness ==
    /\ last.kind = "prepare"
    /\ last.pre.highest_prepare # None
    /\ ProposalNumber_lt(last.n, last.pre.highest_prepare)
    /\ acceptors[last.a].highest_prepare = last.pre.highest_prepare

\* C8: in every reachable state, whenever accepted and promised are both
\* set, accepted.proposal_number <= promised.
C8_AcceptedAtMostPromised ==
    \A a \in Acceptors :
        (acceptors[a].accepted # None /\ acceptors[a].highest_prepare # None)
            => ProposalNumber_le(acceptors[a].accepted.proposal_num,
                                 acceptors[a].highest_prepare)

\* C9 as stated: a Prepare(n) delivered again yields the same response as
\* its first delivery (a Promise if the first was a Promise) and leaves the
\* acceptor's state as it was.
C9_PrepareRedeliverySameResponse ==
    (last.kind = "prepare" /\ last.first # Unseen) =>
        /\ Kind(last.resp) = last.first
        /\ acceptors[last.a] = last.pre

\* C9 amended: a Prepare(n) delivered again, at any point after it was first
\* processed, is rejected, which equals the first response only when the
\* first delivery was rejected too, and it leaves promised and accepted as
\* they were.
C9_PrepareRedeliveryRejected ==
    (last.kind = "prepare" /\ last.first # Unseen) =>
        /\ last.resp = None
        /\ (Kind(last.resp) = last.first <=> last.first = "reject")
        /\ acceptors[last.a] = last.pre

\* A Prepare that was granted a Promise is delivered again right away.
C9_Witness ==
    /\ last.kind = "prepare"
    /\ last.repeat
    /\ last.first = "promise"

\* C10: an Accept(n, v) delivered a second time, with no other request to the
\* acceptor in between, yields the same response as the first delivery and
\* leaves promised and accepted as they were after the first delivery.
C10_AcceptRedeliveryIdempotent ==
    (last.kind = "accept" /\ last.repeat) =>
        /\ last.resp = last.prev_resp
        /\ acceptors[last.a] = last.pre

\* An accepted Accept is delivered again right away.
C10_Witness ==
    /\ last.kind = "accept"
    /\ last.repeat
    /\ last.resp # None
    /\ last.pre.highest_prepare # None

\* ------------------------------------------------ claims on the protocol
\* C1: all non-empty results ever returned by get_consensus are one and the
\* same value.
C1_OneConsensusValue ==
    \A v, w \in consensus : v = w

\* C2: all values returned by successful propose calls are equal.
C2_OneValueReturned ==
    \A x, y \in returned : x[2] = y[2]

\* The positions of the promises of proposer p that carry an accepted pair.
Carrying(p) ==
    {i \in 1..Len(round[p].reported) : round[p].reported[i] # None}

\* C3: when a promise of the round carries an accepted pair, the value sent
\* in Phase 2 is the value of the pair whose proposal number is the maximum,
\* in the (sequence, proposer_id) order, among the reported pairs.
C3_Phase2ValueOfHighestPair ==
    \A p \in NodeIds :
        (round[p].pc = "phase2" /\ Carrying(p) # {}) =>
            \E i \in Carrying(p) :
                /\ \A j \in Carrying(p) :
                       ProposalNumber_ge(round[p].reported[i].proposal_num,
                                         round[p].reported[j].proposal_num)
                /\ round[p].final_value = round[p].reported[i].value

\* -------------------------------- claims on propose calls run one at a time
\* The numbers of the propose calls that returned a value.
ReturnedNumbers == {x[1] : x \in returned}

\* C11: every propose call of a proposer uses a proposal number strictly
\* greater than every number that proposer used in an earlier call, whether
\* the earlier call returned a value or None; no number is used twice.
C11_NumbersStrictlyIncrease ==
    \A p \in NodeIds :
        /\ \A i, j \in 1..Len(used[p]) :
               i < j => ProposalNumber_lt(used[p][i], used[p][j])
        /\ round[p].pc # "idle" =>
               round[p].proposal_num = used[p][Len(used[p])]

\* A proposer is in Phase 2 of its second call after a first call that
\* returned None.
C11_Witness ==
    \E p \in NodeIds :
        /\ Len(used[p]) >= 2
        /\ round[p].pc = "phase2"
        /\ used[p][1] \notin ReturnedNumbers

\* C12: the comparisons of ProposalNumber are the strict total order that
\* compares (seq, node_id) lexicographically, and two proposers with
\* distinct node ids never draw equal proposal numbers.
C12_StrictTotalOrder ==
    /\ \A x, y \in ProposalNumbers :
           /\ ProposalNumber_eq(x, y) <=> x = y
           /\ ProposalNumber_lt(x, y) <=> ProposalNumber_gt(y, x)
           /\ ProposalNumber_le(x, y) <=>
                  (ProposalNumber_lt(x, y) \/ ProposalNumber_eq(x, y))
           /\ ProposalNumber_ge(x, y) <=>
                  (ProposalNumber_gt(x, y) \/ ProposalNumber_eq(x, y))
           /\ ~(ProposalNumber_lt(x, y) /\ ProposalNumber_gt(x, y))
           /\ \/ ProposalNumber_lt(x, y)
              \/ ProposalNumber_eq(x, y)
              \/ ProposalNumber_gt(x, y)
           /\ x.seq < y.seq => ProposalNumber_lt(x, y)
           /\ (x.seq = y.seq /\ x.node_id < y.node_id) =>
                  ProposalNumber_lt(x, y)
           /\ \A z \in ProposalNumbers :
                  (ProposalNumber_lt(x, y) /\ ProposalNumber_lt(y, z)) =>
                      ProposalNumber_lt(x, z)
    /\ \A p, q \in NodeIds :
           p # q =>
               \A i \in 1..Len(used[p]), j \in 1..Len(used[q]) :
                   ~ProposalNumber_eq(used[p][i], used[q][j])

\* Two proposers have drawn numbers with the same seq.
C12_Witness ==
    \E p, q \in NodeIds :
        /\ p # q
        /\ \E i \in 1..Len(used[p]), j \in 1..Len(used[q]) :
               used[p][i].seq = used[q][j].seq

\* f, for 2f+1 acceptors (and for 2f+2).
MaxFaulty == (NumAcceptors - 1) \div 2

\* The latest propose call has returned.
LatestReturned == latest.p \in NodeIds /\ latest.done

\* No acceptor that answers the latest call had, when the call was made,
\* promised a number higher than the call's.
NothingHigherPromised ==
    \A a \in Acceptors \ latest.unreachable :
        \/ latest.before[a].highest_prepare = None
        \/ ProposalNumber_le(latest.before[a].highest_prepare,
                             latest.proposal_num)

\* The acceptors that hold the pair (the latest call's number, value).
AcceptedLatest(value) ==
    {a \in Acceptors :
        acceptors[a].accepted = accepted_pair(latest.proposal_num, value)}

\* C13: with 2f+1 acceptors of which at most f never answer during the call
\* and the others have promised nothing higher than the call's number,
\* propose returns a value, which a majority of the acceptors, all among
\* those that answer, have accepted under the call's number.
C13_SucceedsWithMinorityUnreachable ==
    (/\ LatestReturned
     /\ Cardinality(latest.unreachable) <= MaxFaulty
     /\ NothingHigherPromised) =>
        /\ latest.result # NoneValue
        /\ latest.result = round[latest.p].result
        /\ Cardinality(AcceptedLatest(latest.result)) >= majority
        /\ AcceptedLatest(latest.result) \cap latest.unreachable = {}

\* A call returned with exactly f acceptors unanswering, among acceptors
\* that had promised another number before.
C13_Witness ==
    /\ LatestReturned
    /\ Cardinality(latest.unreachable) = MaxFaulty
    /\ MaxFaulty > 0
    /\ NothingHigherPromised
    /\ \E a \in Acceptors \ latest.unreachable :
           latest.before[a].highest_prepare # None
    /\ latest.result # NoneValue

\* The learner of the demonstration: it is told the accepted value of every
\* acceptor of the list accs, from position i on, that holds one.
RECURSIVE learn_from(_, _, _)
learn_from(self, accs, i) ==
    IF i > NumAcceptors THEN self
    ELSE learn_from(IF accs[i].accepted # None
                    THEN Learner_learn(self, accs[i].node_id,
                                       accs[i].accepted.value)
                    ELSE self,
                    accs, i + 1)

\* What that learner reports for the acceptors accs.
ReportedConsensus(accs) ==
    Learner_get_consensus(learn_from(Learner_init(LearnerId), accs, 1),
                          NumAcceptors)

\* C14: with 2f+1 acceptors of which more than f never answer during a
\* call, propose returns None, and the call changes nothing that a learner
\* or a proposer reports: no acceptor's accepted pair, hence no learner's
\* consensus, and no value is returned under the call's number.
C14_FailsWithMajorityUnreachable ==
    (/\ latest.p \in NodeIds
     /\ Cardinality(latest.unreachable) > MaxFaulty) =>
        /\ latest.done =>
               /\ latest.result = NoneValue
               /\ round[latest.p].result = NoneValue
        /\ \A a \in Acceptors :
               acceptors[a].accepted = latest.before[a].accepted
        /\ ReportedConsensus(acceptors) = ReportedConsensus(latest.before)
        /\ latest.proposal_num \notin ReturnedNumbers
        /\ round[latest.p].pc # "phase2"

\* A call with more than f acceptors unanswering returned after an earlier
\* call had a value chosen, and an acceptor that answered promised.
C14_Witness ==
    /\ LatestReturned
    /\ Cardinality(latest.unreachable) > MaxFaulty
    /\ latest.unreachable # Acceptors
    /\ returned # {}
    /\ ReportedConsensus(latest.before) # NoneValue
    /\ \E a \in Acceptors :
           acceptors[a].highest_prepare # latest.before[a].highest_prepare

\* The latest call was made right after a call of another proposer, with
\* number n1, in which every acceptor accepted value and which returned it.
MadeAfterFullRound(n1, value) ==
    /\ n1.node_id # latest.p
    /\ <<n1, value>> \in returned
    /\ \A a \in Acceptors :
           /\ latest.before[a].highest_prepare = n1
           /\ latest.before[a].accepted = accepted_pair(n1, value)

\* C15: when P1 has completed a call in which all acceptors accepted A and
\* P2 then makes a call that runs both phases with a higher number and
\* another candidate B, P2 sends A in Phase 2, its propose returns A and
\* every acceptor ends with accepted value A.
C15_LaterProposerAdoptsChosenValue ==
    \A n1 \in ProposalNumbers, A \in Values :
        (/\ LatestReturned
         /\ MadeAfterFullRound(n1, A)
         /\ ProposalNumber_gt(latest.proposal_num, n1)
         /\ latest.value # A
         /\ Cardinality(latest.unreachable) <= MaxFaulty) =>
            /\ latest.sent = A
            /\ latest.result = A
            /\ \A a \in Acceptors :
                   /\ acceptors[a].accepted # None
                   /\ acceptors[a].accepted.value = A

\* P2's call returned after P1's call in which all acceptors accepted, and
\* all acceptors accepted again under P2's number.
C15_Witness ==
    \E n1 \in ProposalNumbers, A \in Values :
        /\ LatestReturned
        /\ MadeAfterFullRound(n1, A)
        /\ ProposalNumber_gt(latest.proposal_num, n1)
        /\ latest.value # A
        /\ latest.unreachable = {}
        /\ AcceptedLatest(A) = Acceptors

\* C16: with acceptors that are all fresh and all answer, the first propose
\* of a proposer with candidate v returns v and every acceptor ends with
\* accepted = (n, v), n being the call's proposal number.
C16_FirstProposeOnFreshAcceptors ==
    (/\ LatestReturned
     /\ latest.unreachable = {}
     /\ \A a \in Acceptors : latest.before[a] = Acceptor_init(a)) =>
        /\ latest.value = candidate(latest.p)
        /\ latest.result = latest.value
        /\ round[latest.p].result = latest.value
        /\ \A a \in Acceptors :
               acceptors[a].accepted =
                   accepted_pair(latest.proposal_num, latest.value)

\* The first call on fresh acceptors that all answer has returned.
C16_Witness ==
    /\ LatestReturned
    /\ latest.unreachable = {}
    /\ \A a \in Acceptors : latest.before[a] = Acceptor_init(a)
    /\ used[latest.p] = <<latest.proposal_num>>
    /\ latest.result \in Values

\* C17: when a call of a proposer was rejected by an acceptor that had
\* promised m, higher than the call's number, the proposer's next call uses
\* a number whose seq is greater than m's seq.
C17_RetryExceedsRejectingPromise ==
    \A p \in NodeIds :
        (round[p].pc # "idle" /\ rejected[p].prev # None) =>
            round[p].proposal_num.seq > rejected[p].prev.seq

\* C18: when an acceptor rejects a Prepare or an Accept, the response it
\* returns is a message that carries the acceptor's promised number.
C18_RejectionCarriesPromised ==
    (\/ last.kind = "prepare" /\ ~LastPrepareShouldGrant
     \/ last.kind = "accept" /\ ~LastAcceptShouldSucceed) =>
        /\ last.resp # None
        /\ last.resp.proposal_num = last.pre.highest_prepare.seq

\* ------------------------------------------------- claims on the learner
\* The value acceptor a reported last (NoneValue: it reported nothing).
LastReported(a) ==
    LET items == learner.values
        mine == {i \in 1..Len(items) : items[i][1] = acceptors[a].node_id}
    IN  IF mine = {} THEN NoneValue
        ELSE items[CHOOSE i \in mine : \A k \in mine : k <= i][2]

\* The number of acceptors whose last reported value is value.
Reporters(value) == Cardinality({a \in Acceptors : LastReported(a) = value})

C20_ConsensusImmutable ==
    \A v \in consensus : Learner_get_consensus(learner, NumAcceptors) = v

\* The states of self.values of the learners that received the latest
\* observation of every acceptor in some other order: the same items, in
\* any order of insertion.
Reorderings(items) ==
    {[i \in 1..Len(items) |-> items[f[i]]] :
        f \in Permutations(1..Len(items))}

\* C21: two learners that hold the same last-reported value for every
\* acceptor return the same result from get_consensus(total) for every
\* total, in whatever order the observations reached each of them.
C21_LearnersAgree ==
    \A total \in Totals, other \in Reorderings(learner.values) :
        Learner_get_consensus([learner EXCEPT !.values = other], total)
            = Learner_get_consensus(learner, total)

\* A propose call of the proposer that keeps calling has returned a value.
SoloChosen == \E x \in returned : x[1].node_id = SoloProposer

\* C22: when a single proposer keeps calling propose against acceptors of
\* which a majority always answer and no other proposer is active, after
\* finitely many calls a propose returns a value, whatever the acceptors
\* had promised before.
C22_SoloEventuallyChosen == <>SoloChosen

\* The proposer's call returned a value after its previous call had been
\* rejected by an earlier promise, with an acceptor that answers nothing.
C22_Witness ==
    /\ SoloChosen
    /\ latest.p = SoloProposer
    /\ latest.done
    /\ latest.result # NoneValue
    /\ rejected[SoloProposer].prev # None
    /\ latest.unreachable # {}

\* C23: immediately after a successful accept(n, v), the learner's recorded
\* value for that acceptor is v, nobody else having called learn.
C23_AcceptNotifiesLearner ==
    (last.kind = "accept" /\ last.resp # None) =>
        LastReported(last.a) = last.v

\* --------------------------------------------------- claims on the ring
\* The least of a non-empty set of positions.
Least(positions) == CHOOSE p \in positions : \A q \in positions : p <= q

\* The ring position that serves the hash key_hash by the clockwise rule:
\* the smallest position >= key_hash, or the smallest of all.
ClockwisePosition(ring, key_hash) ==
    LET ahead == {p \in DOMAIN ring : p >= key_hash} IN
    IF ahead # {} THEN Least(ahead) ELSE Least(DOMAIN ring)

\* C24: on a non-empty ring, get_node(key) returns the node that owns the
\* smallest ring position >= hash(key), or the node that owns the smallest
\* position when none is; a key whose hash is a ring position gets the node
\* at that position.
C24_GetNodeClockwise ==
    DOMAIN ch.ring # {} =>
        \A key \in Strings :
            get_node(ch, key) =
                ch.ring[ClockwisePosition(ch.ring, ConsistentHashing_hash(key))]

\* C25: remove_node(x) changes get_node(k) only for keys k that mapped to x
\* before: a key that mapped to another node maps to that node afterwards.
C25_RemoveMovesOnlyItsKeys ==
    ring_last.op = "remove" =>
        \A key \in Strings :
            LET was == get_node(ring_last.before, key) IN
            (was \in Servers /\ was # ring_last.node) =>
                get_node(ch, key) = was

\* remove_node removed a node of a ring in which some key mapped to it and
\* some key mapped to another node, and the key of the removed node moved.
C25_Witness ==
    /\ ring_last.op = "remove"
    /\ ring_last.node \in ring_last.before.nodes
    /\ \E key \in Strings :
           /\ get_node(ring_last.before, key) = ring_last.node
           /\ get_node(ch, key) \in Servers \ {ring_last.node}
    /\ \E key \in Strings :
           get_node(ring_last.before, key) \in Servers \ {ring_last.node}

\* C26: add_node(x) for a node x not in the ring changes get_node(k) only by
\* moving keys to x: a key whose assignment differs after the call is
\* assigned to x.
C26_AddMovesKeysOnlyToNewNode ==
    (ring_last.op = "add" /\ ring_last.node \notin ring_last.before.nodes) =>
        \A key \in Strings :
            get_node(ch, key) # get_node(ring_last.before, key) =>
                get_node(ch, key) = ring_last.node

\* C27: after any add_node and remove_node calls, get_node(key) returns
\* None if and only if no node is in the ring, and otherwise returns,
\* without raising, a node that is in nodes.
C27_GetNodeNoneOrMember ==
    \A key \in Strings :
        /\ get_node(ch, key) = NoneValue <=> ch.nodes = {}
        /\ ch.nodes # {} => get_node(ch, key) \in ch.nodes

\* ------------------------------------- more claims on propose and prepare
\* The acceptors that answer the latest call and grant its Prepare.
PromisersOfLatest ==
    {a \in Acceptors \ latest.unreachable :
        prepare_grants(latest.before[a], latest.proposal_num)}

\* C28: in a propose call in which no Promise carries a previously accepted
\* pair, the value sent in Phase 2, and returned when the call succeeds, is
\* the caller's candidate value.
C28_CandidateWhenNoPairReported ==
    /\ \A p \in NodeIds :
           (/\ round[p].pc = "phase2"
            /\ \A i \in 1..Len(round[p].promises) :
                   round[p].promises[i].prev_accepted = None) =>
               /\ round[p].final_value = round[p].value
               /\ round[p].value = candidate(p)
    /\ (/\ LatestReturned
        /\ latest.result # NoneValue
        /\ \A a \in PromisersOfLatest : latest.before[a].accepted = None) =>
           /\ latest.sent = latest.value
           /\ latest.result = latest.value
           /\ AcceptedLatest(latest.value) = PromisersOfLatest

\* A call returned its candidate; its promises came from acceptors that had
\* accepted nothing, one of which had promised before, and not from every
\* acceptor.
C28_Witness ==
    /\ LatestReturned
    /\ latest.result = latest.value
    /\ latest.result # NoneValue
    /\ PromisersOfLatest # Acceptors
    /\ \A a \in PromisersOfLatest : latest.before[a].accepted = None
    /\ \E a \in PromisersOfLatest : latest.before[a].highest_prepare # None

\* C29: a Promise reports the acceptor's accepted pair as stored when
\* prepare was called: the value, and the proposal number identified by seq
\* and node id (no other stored number would be reported the same way); it
\* reports no pair if and only if the acceptor has accepted nothing.
C29_PromiseReportsStoredPair ==
    (last.kind = "prepare" /\ last.resp # None) =>
        /\ last.resp.prev_accepted = None <=> last.pre.accepted = None
        /\ last.pre.accepted # None =>
               /\ last.resp.prev_accepted.prev_value = last.pre.accepted.value
               /\ last.resp.prev_accepted.prev_proposal_num
                      = last.pre.accepted.proposal_num.seq
               /\ \A n \in ProposalNumbers :
                      prepare_prev_accepted(
                          [last.pre EXCEPT
                             !.accepted =
                                 accepted_pair(n, last.pre.accepted.value)])
                          = last.resp.prev_accepted
                      => n = last.pre.accepted.proposal_num

\* C30: in a propose call with number n, Accept(n, v) goes only to
\* acceptors that returned a Promise for n in the call's Phase 1; an
\* acceptor that rejected the Prepare or did not answer it keeps its
\* accepted pair throughout the call.
C30_AcceptOnlyToPromisers ==
    /\ latest.p \in NodeIds =>
           \A a \in Acceptors \ PromisersOfLatest :
               acceptors[a].accepted = latest.before[a].accepted
    /\ \A p \in NodeIds :
           round[p].pc = "phase2" =>
               \A a \in Acceptors :
                   (/\ acceptors[a].accepted # None
                    /\ acceptors[a].accepted.proposal_num
                           = round[p].proposal_num) =>
                       \E i \in 1..Len(round[p].promises) :
                           round[p].promises[i].sender = acceptors[a].node_id

\* A call returned a value although an acceptor that answered had rejected
\* its Prepare; the others accepted.
C30_Witness ==
    /\ LatestReturned
    /\ latest.result # NoneValue
    /\ \E a \in Acceptors \ latest.unreachable :
           ~prepare_grants(latest.before[a], latest.proposal_num)
    /\ AcceptedLatest(latest.result) = PromisersOfLatest

\* ------------------------------------------- claims on one call's messages
\* C31: when Phase 1 of a propose call collects fewer than
\* floor(|acceptors| / 2) + 1 promises, the call returns None without
\* sending any Accept: no acceptor's accepted pair changes in the call, no
\* value is sent, and the promises granted for the call's number stay in
\* force on the acceptors that granted them.
C31_Phase1FailureSendsNoAccept ==
    (/\ latest.p \in NodeIds
     /\ Cardinality(PromisersOfLatest) < majority) =>
        /\ round[latest.p].pc # "phase2"
        /\ latest.sent = NoneValue
        /\ \A a \in Acceptors :
               acceptors[a].accepted = latest.before[a].accepted
        /\ latest.done =>
               /\ latest.result = NoneValue
               /\ round[latest.p].result = NoneValue
               /\ \A a \in PromisersOfLatest :
                      acceptors[a].highest_prepare = latest.proposal_num

\* A call returned None with a promise granted, too few for a majority,
\* although at most f acceptors did not answer: another one rejected.
C31_Witness ==
    /\ LatestReturned
    /\ PromisersOfLatest # {}
    /\ Cardinality(PromisersOfLatest) < majority
    /\ Cardinality(latest.unreachable) <= MaxFaulty
    /\ latest.result = NoneValue
    /\ \A a \in PromisersOfLatest :
           acceptors[a].highest_prepare = latest.proposal_num

\* The acceptors that answered Accepted to the Accept of the latest call.
AcceptedAnswers ==
    {a \in Acceptors :
        [acceptor |-> acceptors[a].node_id,
         proposal_num |-> latest.proposal_num,
         value |-> latest.sent] \in acceptances}

\* C32: propose returns a value v only if at least majority distinct
\* acceptors of its list answered Accepted to the call's Accept(n, v); in
\* every other case it returns None; the value returned is the value the
\* call sent in Phase 2, the only value accepted under n.
C32_ReturnsOnlyOnMajorityAccepted ==
    LatestReturned =>
        /\ latest.result # NoneValue <=>
               Cardinality(AcceptedAnswers) >= majority
        /\ latest.result = round[latest.p].result
        /\ latest.result # NoneValue => latest.result = latest.sent
        /\ \A x \in acceptances :
               x.proposal_num = latest.proposal_num => x.value = latest.sent

\* A call returned its value on exactly a majority of Accepted answers: an
\* acceptor that had promised did not answer the Accept.
C32_Witness ==
    /\ LatestReturned
    /\ latest.result # NoneValue
    /\ Cardinality(AcceptedAnswers) = majority
    /\ \E a \in Acceptors \ AcceptedAnswers : sends.accept[a] = 1

\* C33: whenever a learner that has been told every acceptance returns a
\* value v from get_consensus(N), there is a single proposal number n such
\* that at least floor(N / 2) + 1 acceptors accepted (n, v): v does not
\* merely appear at a majority of acceptors under different numbers.
C33_ConsensusUnderOneNumber ==
    LET v == Learner_get_consensus(learner, NumAcceptors) IN
    v # NoneValue =>
        \E n \in ProposalNumbers :
            Cardinality({a \in Acceptors :
                            [acceptor |-> acceptors[a].node_id,
                             proposal_num |-> n,
                             value |-> v] \in acceptances})
                >= NumAcceptors \div 2 + 1

\* C34: every propose call terminates, returning a value or None, after
\* sending at most one Prepare and at most one Accept to each acceptor: it
\* waits for no answer and retries nothing inside the call.
C34_ProposeTerminates ==
    /\ [](/\ \A a \in Acceptors :
               sends.prepare[a] <= 1 /\ sends.accept[a] <= 1
          /\ \A p \in NodeIds :
               round[p].result \in Values \cup {NoneValue})
    /\ \A p \in NodeIds :
           (round[p].pc # "idle") ~> (round[p].pc = "idle")

\* A call returned after one Prepare to every acceptor, of which one got
\* no answer, and one Accept that got no answer.
C34_Witness ==
    /\ LatestReturned
    /\ \A a \in Acceptors : sends.prepare[a] = 1
    /\ latest.unreachable # {}
    /\ \E a \in Acceptors :
           /\ sends.accept[a] = 1
           /\ \/ acceptors[a].accepted = None
              \/ acceptors[a].accepted.proposal_num # latest.proposal_num

\* C35: for a fixed acceptor, over any sequence of prepare and accept calls
\* with arbitrary numbers, the proposal number of its accepted pair never
\* decreases: a call that meets an accepted pair leaves a pair whose number
\* is at least as high.
C35_AcceptedNumberNeverDecreases ==
    (last.kind # "none" /\ last.pre.accepted # None) =>
        /\ acceptors[last.a].accepted # None
        /\ ProposalNumber_ge(acceptors[last.a].accepted.proposal_num,
                             last.pre.accepted.proposal_num)

\* ------------------------------------------------- claims on the ring's lists
\* C36: after any sequence of add_node and remove_node calls, add_node of a
\* node already present included, sorted_hashes is strictly ascending and
\* contains exactly the keys of ring, each once.
C36_SortedHashesAreTheRingKeys ==
    /\ \A i \in 1..(Len(ch.sorted_hashes) - 1) :
           ch.sorted_hashes[i] < ch.sorted_hashes[i + 1]
    /\ {ch.sorted_hashes[i] : i \in 1..Len(ch.sorted_hashes)} = DOMAIN ch.ring
    /\ Len(ch.sorted_hashes) = Cardinality(DOMAIN ch.ring)

\* C37: for a node x not in the ring, add_node(x) followed by
\* remove_node(x) restores nodes, ring and sorted_hashes exactly, so that
\* get_node returns the same result for every key as before the two calls
\* (distinct virtual keys hash to distinct positions); remove_node of a
\* node not in the ring changes nothing.
C37_AddThenRemoveRestores ==
    /\ \A x \in Servers \ ch.nodes :
           LET back == remove_node(add_node(ch, x), x) IN
           /\ back.nodes = ch.nodes
           /\ back.ring = ch.ring
           /\ back.sorted_hashes = ch.sorted_hashes
           /\ \A key \in Strings : get_node(back, key) = get_node(ch, key)
           /\ remove_node(ch, x) = ch
    /\ (ring_last.op = "remove"
        /\ ring_last.node \notin ring_last.before.nodes) =>
           ch = ring_last.before
    /\ (/\ ring_last.op = "remove"
        /\ ring_last.node \notin ch.nodes
        /\ ring_last.before = add_node(ch, ring_last.node)) =>
           ch = remove_node(ring_last.before, ring_last.node)

\* remove_node(x) met the ring that add_node(x) makes of the present ring,
\* which holds another node and not x: the two calls restored it.
C37_Witness ==
    /\ ring_last.op = "remove"
    /\ ring_last.node \notin ch.nodes
    /\ ch.nodes # {}
    /\ ring_last.before = add_node(ch, ring_last.node)
    /\ \E key \in Strings :
           get_node(ring_last.before, key) # get_node(ch, key)

====
